---- MODULE Spec2Model ----
(***************************************************************************)
(* Model of Append_data.py: discovery of the data files of the working     *)
(* directory, per-file reading (encoding retry loop, header cleaning,      *)
(* provenance column), outer-union append, optional first-wins             *)
(* de-duplication on a user-selected column, and the timestamped write.    *)
(*                                                                         *)
(* Text is modelled as a sequence of one-character strings, so that        *)
(* strip(), lower(), isdigit(), int(), startswith(), substring search and  *)
(* f-string formatting are computed as Python computes them.               *)
(***************************************************************************)
EXTENDS Integers, Sequences, FiniteSets, TLC

(* ------------------------------ bounds -------------------------------- *)
\* longest raw header sequence handed to clean_column_names
MaxCols == 3
\* most per-file tables handed to one concat
MaxTables == 3
\* most files in the working directory before the first run
MaxFiles == 3
\* runs of the script in the same working directory
MaxRuns == 2

(* ------------------------------- text --------------------------------- *)
UpperChars == <<"A","B","C","D","E","F","G","H","I","J","K","L","M",
                "N","O","P","Q","R","S","T","U","V","W","X","Y","Z">>
LowerChars == <<"a","b","c","d","e","f","g","h","i","j","k","l","m",
                "n","o","p","q","r","s","t","u","v","w","x","y","z">>
DigitChars == <<"0","1","2","3","4","5","6","7","8","9">>
Whitespace == {" ", "\t"}

Range(s) == {s[i] : i \in DOMAIN s}

\* str.lower() on one character, then on a text
LowerChar(c) ==
  IF \E i \in DOMAIN UpperChars : UpperChars[i] = c
  THEN LowerChars[CHOOSE i \in DOMAIN UpperChars : UpperChars[i] = c]
  ELSE c
Lower(s) == [i \in DOMAIN s |-> LowerChar(s[i])]

\* str.strip(): drop leading and trailing whitespace
RECURSIVE LStrip(_)
LStrip(s) == IF s # <<>> /\ Head(s) \in Whitespace THEN LStrip(Tail(s)) ELSE s
RECURSIVE RStrip(_)
RStrip(s) ==
  IF s # <<>> /\ s[Len(s)] \in Whitespace THEN RStrip(SubSeq(s, 1, Len(s) - 1)) ELSE s
Strip(s) == RStrip(LStrip(s))

\* str.isdigit() for ASCII text: non-empty and every character a digit
IsDigit(s) == s # <<>> /\ \A i \in DOMAIN s : s[i] \in Range(DigitChars)

DigitVal(c) == (CHOOSE i \in DOMAIN DigitChars : DigitChars[i] = c) - 1
\* int(s) for a text of decimal digits
RECURSIVE ToInt(_)
ToInt(s) ==
  IF s = <<>> THEN 0 ELSE 10 * ToInt(SubSeq(s, 1, Len(s) - 1)) + DigitVal(s[Len(s)])

\* str(n) for n >= 0, as the f-string formats a count
RECURSIVE IntToStr(_)
IntToStr(n) ==
  IF n < 10 THEN <<DigitChars[n + 1]>>
  ELSE IntToStr(n \div 10) \o <<DigitChars[(n % 10) + 1]>>

\* s.startswith(p)
StartsWith(s, p) == Len(p) <= Len(s) /\ SubSeq(s, 1, Len(p)) = p
\* sub in s
Contains(s, sub) ==
  \E i \in 1..(Len(s) - Len(sub) + 1) : SubSeq(s, i, i + Len(sub) - 1) = sub

IsUnique(s) == \A i, j \in DOMAIN s : i # j => s[i] # s[j]

SOURCE_FILE == <<"S","o","u","r","c","e","_","F","i","l","e">>

(* ------------------------ clean_column_names --------------------------- *)
\* the loop of clean_column_names from position i, with the dict `seen`
\* (a function on the names met so far) and the list `out`
RECURSIVE CleanLoop(_, _, _, _)
CleanLoop(cols, i, seen, out) ==
  IF i > Len(cols) THEN out
  ELSE LET name == Strip(cols[i]) IN
       IF name \in DOMAIN seen
       THEN LET n == seen[name] + 1 IN
            CleanLoop(cols, i + 1, [seen EXCEPT ![name] = n],
                      Append(out, name \o <<".">> \o IntToStr(n)))
       ELSE CleanLoop(cols, i + 1,
                      [k \in DOMAIN seen \cup {name} |-> IF k = name THEN 0 ELSE seen[k]],
                      Append(out, name))

clean_column_names(cols) == CleanLoop(cols, 1, <<>>, <<>>)

(* ------------------------------ tables -------------------------------- *)
\* A DataFrame: cols is the column index (labels, left to right), rows the
\* records, each row positional (row[j] is the cell under cols[j]).
\* None is Python's None; NaN is the missing-value marker of pandas.
None == <<"None">>
NaN == <<"NaN">>

Table(cols, rows) == [cols |-> cols, rows |-> rows]

\* df.insert(0, "Source_File", name): ValueError when the label already exists
\* (allow_duplicates is False); otherwise a new first column holding `name`
InsertRaises(cols) == \E j \in DOMAIN cols : cols[j] = SOURCE_FILE
InsertSource(cols, rows, name) ==
  Table(<<SOURCE_FILE>> \o cols, [i \in DOMAIN rows |-> <<name>> \o rows[i]])

\* df.empty: an axis of length 0
IsEmpty(df) == Len(df.cols) = 0 \/ Len(df.rows) = 0

(* ---------------- pd.concat(dfs, ignore_index=True, sort=False) --------- *)
RECURSIVE OrderedUnionFrom(_, _, _)
OrderedUnionFrom(dfs, i, acc) ==
  IF i > Len(dfs) THEN acc
  ELSE OrderedUnionFrom(dfs, i + 1,
         acc \o SelectSeq(dfs[i].cols, LAMBDA c : c \notin Range(acc)))
\* the union of the column indexes, first seen first
OrderedUnion(dfs) == OrderedUnionFrom(dfs, 1, <<>>)

PosOf(cols, c) == CHOOSE j \in DOMAIN cols : cols[j] = c
\* a row of df laid out under the columns u; NaN where df has no such column
Reindex(df, row, u) ==
  [j \in DOMAIN u |-> IF u[j] \in Range(df.cols) THEN row[PosOf(df.cols, u[j])] ELSE NaN]

RECURSIVE ConcatRows(_, _, _)
ConcatRows(dfs, i, u) ==
  IF i > Len(dfs) THEN <<>>
  ELSE [k \in DOMAIN dfs[i].rows |-> Reindex(dfs[i], dfs[i].rows[k], u)]
       \o ConcatRows(dfs, i + 1, u)
RECURSIVE JoinRows(_, _)
JoinRows(dfs, i) ==
  IF i > Len(dfs) THEN <<>> ELSE dfs[i].rows \o JoinRows(dfs, i + 1)

\* Whether the concat raises: the frames' column indexes differ and one of
\* them holds a repeated label (pandas cannot reindex on duplicate labels).
ConcatRaises(dfs) ==
  /\ \E i \in DOMAIN dfs : dfs[i].cols # dfs[1].cols
  /\ \E i \in DOMAIN dfs : ~IsUnique(dfs[i].cols)

\* The appended frame, for a non-empty list on which the concat does not raise:
\* equal column indexes are kept as they are, otherwise the frames are aligned
\* on the union of their labels.
Concat(dfs) ==
  IF \A i \in DOMAIN dfs : dfs[i].cols = dfs[1].cols
  THEN Table(dfs[1].cols, JoinRows(dfs, 1))
  ELSE LET u == OrderedUnion(dfs) IN Table(u, ConcatRows(dfs, 1, u))

(* ------- appended.drop_duplicates(subset=[selected], keep="first") ------ *)
\* the key of a row: its cells under every column labelled `selected`
KeyOf(df, row, selected) ==
  LET at == SelectSeq([j \in DOMAIN df.cols |-> j], LAMBDA j : df.cols[j] = selected)
  IN  [k \in DOMAIN at |-> row[at[k]]]

\* a variant that drops one repeat of a key and then forgets the key
RECURSIVE DropLoopForgetful(_, _, _, _, _)
DropLoopForgetful(df, selected, i, seen, kept) ==
  IF i > Len(df.rows) THEN kept
  ELSE LET key == KeyOf(df, df.rows[i], selected) IN
       IF key \in seen
       THEN DropLoopForgetful(df, selected, i + 1, seen \ {key}, kept)
       ELSE DropLoopForgetful(df, selected, i + 1, seen \cup {key},
                              Append(kept, df.rows[i]))
DropDuplicatesForgetful(df, selected) ==
  Table(df.cols, DropLoopForgetful(df, selected, 1, {}, <<>>))

RECURSIVE DropLoop(_, _, _, _, _)
DropLoop(df, selected, i, seen, kept) ==
  IF i > Len(df.rows) THEN kept
  ELSE LET key == KeyOf(df, df.rows[i], selected) IN
       IF key \in seen THEN DropLoop(df, selected, i + 1, seen, kept)
       ELSE DropLoop(df, selected, i + 1, seen \cup {key}, Append(kept, df.rows[i]))

DropDuplicates(df, selected) == Table(df.cols, DropLoop(df, selected, 1, {}, <<>>))

\* lines 262-265 of main: the de-duplicated frame and the three counts
Dedupe(df, selected) ==
  LET deduped == DropDuplicates(df, selected)
      before == Len(df.rows)
      after == Len(deduped.rows)
  IN  [deduped |-> deduped, before |-> before, after |-> after, removed |-> before - after]

(* ------------------------ select_dedupe_column ------------------------- *)
\* the dict {c.lower(): c for c in columns}: a later column replaces an earlier
\* one with the same lowered name
LoweredGet(columns, key) ==
  columns[CHOOSE j \in DOMAIN columns :
            /\ Lower(columns[j]) = key
            /\ \A k \in DOMAIN columns : Lower(columns[k]) = key => k <= j]

\* a variant that matches the name as typed, without lowering it
select_dedupe_column_exact_case(columns, typed) ==
  LET raw == Strip(typed) IN
  IF raw = <<>> THEN None
  ELSE IF IsDigit(raw)
       THEN LET idx == ToInt(raw) IN
            IF 0 <= idx /\ idx < Len(columns) THEN columns[idx + 1] ELSE None
       ELSE IF \E j \in DOMAIN columns : columns[j] = raw
            THEN raw
            ELSE None

select_dedupe_column(columns, typed) ==
  LET raw == Strip(typed) IN
  IF raw = <<>> THEN None
  ELSE IF IsDigit(raw)
       THEN LET idx == ToInt(raw) IN
            IF 0 <= idx /\ idx < Len(columns) THEN columns[idx + 1] ELSE None
       ELSE IF \E j \in DOMAIN columns : Lower(columns[j]) = Lower(raw)
            THEN LoweredGet(columns, Lower(raw))
            ELSE None

\* s.endswith(p)
EndsWith(s, p) == Len(p) <= Len(s) /\ SubSeq(s, Len(s) - Len(p) + 1, Len(s)) = p

(* ------------------------------- paths --------------------------------- *)
\* position of the last "." that is not the first character, 0 when none
LastDot(name) ==
  LET dots == {i \in DOMAIN name : name[i] = "." /\ i > 1} IN
  IF dots = {} THEN 0 ELSE CHOOSE i \in dots : \A j \in dots : j <= i
\* Path.suffix and Path.stem
Suffix(name) == IF LastDot(name) = 0 THEN <<>> ELSE SubSeq(name, LastDot(name), Len(name))
Stem(name) == IF LastDot(name) = 0 THEN name ELSE SubSeq(name, 1, LastDot(name) - 1)

ExcelSuffixes == { <<".","x","l","s","x">>, <<".","x","l","s","m">>, <<".","x","l","s">>,
                   <<".","x","l","s","b">>, <<".","o","d","s">> }
TextSuffixes == { <<".","c","s","v">>, <<".","t","s","v">>, <<".","t","x","t">> }
TSV == <<".","t","s","v">>

(* ----------------------------- file content ---------------------------- *)
\* What a file holds, as far as the readers can tell:
\*   encOk[e]  pd.read_csv succeeds when the bytes are decoded as e
\*   sniff     what csv.Sniffer finds in the sample: a delimiter, "error"
\*             (the sniffer or the open raises) or "empty" (no sample)
\*   engine    the decoding engine of the spreadsheet format is installed
\*   xlOk      pd.read_excel succeeds on the first sheet
\*   hdr, rows the parsed column labels and records
encodings_to_try == <<"utf-8-sig", "utf-8", "cp1252", "latin1">>
Delimiters == {",", ";", "\t", "|"}

Content(encOk, sniff, engine, xlOk, hdr, rows) ==
  [encOk |-> encOk, sniff |-> sniff, engine |-> engine, xlOk |-> xlOk,
   hdr |-> hdr, rows |-> rows]
File(name, content) == [name |-> name, content |-> content]

AllEnc(b) == [e \in Range(encodings_to_try) |-> b]

(* ---------------------------- sniff_delimiter -------------------------- *)
sniff_delimiter(file, enc) ==
  IF file.content.sniff = "empty" THEN ","
  ELSE IF file.content.sniff \in Delimiters THEN file.content.sniff
  ELSE ","

(* ------------------------- read_delimited_safely ----------------------- *)
\* What a reader returns, with what it did on the way: isNone (the return
\* value is None), df (the frame otherwise), tries (one entry per attempt:
\* the encoding or engine, the delimiter, whether the sniffer was called,
\* whether the attempt succeeded) and warn (the [WARN] lines printed).
NoFrame == Table(<<>>, <<>>)
Returned(df, tries) == [isNone |-> FALSE, df |-> df, tries |-> tries, warn |-> <<>>]
Skipped(tries, warning) == [isNone |-> TRUE, df |-> NoFrame, tries |-> tries, warn |-> <<warning>>]
Try(with, sep, sniffed, ok) == [with |-> with, sep |-> sep, sniffed |-> sniffed, ok |-> ok]
Warning(name, kind, detail) == [file |-> name, kind |-> kind, detail |-> detail]

\* the body of the try block for one encoding: "" when it returns, else the exception
AttemptError(file, enc) ==
  IF ~file.content.encOk[enc] THEN "ParserError:" \o enc
  ELSE IF InsertRaises(clean_column_names(file.content.hdr)) THEN "ValueError:" \o enc
  ELSE ""

RECURSIVE DelimitedLoop(_, _, _, _)
DelimitedLoop(file, i, last_err, tries) ==
  IF i > Len(encodings_to_try)
  THEN Skipped(tries, Warning(file.name, "could not read delimited file", last_err))
  ELSE LET enc == encodings_to_try[i]
           fixed == Lower(Suffix(file.name)) = TSV
           sep == IF fixed THEN "\t" ELSE sniff_delimiter(file, enc)
           err == AttemptError(file, enc)
       IN  IF err = ""
           THEN Returned(InsertSource(clean_column_names(file.content.hdr),
                                      file.content.rows, file.name),
                         Append(tries, Try(enc, sep, ~fixed, TRUE)))
           ELSE DelimitedLoop(file, i + 1, err, Append(tries, Try(enc, sep, ~fixed, FALSE)))

\* a variant whose loop starts at the second encoding
read_delimited_skipping_first(file) == DelimitedLoop(file, 2, "None", <<>>)

read_delimited_safely(file) == DelimitedLoop(file, 1, "None", <<>>)

(* --------------------------- read_excel_safely ------------------------- *)
Engine(suffix) ==
  IF suffix \in {<<".","x","l","s","x">>, <<".","x","l","s","m">>} THEN "openpyxl"
  ELSE IF suffix = <<".","x","l","s">> THEN "xlrd"
  ELSE IF suffix = <<".","x","l","s","b">> THEN "pyxlsb"
  ELSE IF suffix = <<".","o","d","s">> THEN "odf"
  ELSE ""
Need(suffix) ==
  IF suffix \in {<<".","x","l","s","x">>, <<".","x","l","s","m">>} THEN "openpyxl"
  ELSE IF suffix = <<".","x","l","s">> THEN "xlrd==1.2.0"
  ELSE IF suffix = <<".","x","l","s","b">> THEN "pyxlsb"
  ELSE IF suffix = <<".","o","d","s">> THEN "odfpy"
  ELSE ""

read_excel_safely(file) ==
  LET suffix == Lower(Suffix(file.name))
      engine == Engine(suffix)
  IN  IF engine = ""
      THEN Skipped(<<>>, Warning(file.name, "Unhandled Excel suffix", ""))
      ELSE IF ~file.content.engine
      THEN Skipped(<<Try(engine, "", FALSE, FALSE)>>,
                   Warning(file.name, "Missing dependency", Need(suffix)))
      ELSE IF ~file.content.xlOk
      THEN Skipped(<<Try(engine, "", FALSE, FALSE)>>,
                   Warning(file.name, "Skipping", "Exception"))
      ELSE IF InsertRaises(clean_column_names(file.content.hdr))
      THEN Skipped(<<Try(engine, "", FALSE, FALSE)>>,
                   Warning(file.name, "Skipping", "ValueError"))
      ELSE Returned(InsertSource(clean_column_names(file.content.hdr),
                                 file.content.rows, file.name),
                    <<Try(engine, "", FALSE, TRUE)>>)

(* --------------------------- read_any_supported ------------------------ *)
read_any_supported(file) ==
  LET suffix == Lower(Suffix(file.name)) IN
  IF suffix \in ExcelSuffixes THEN read_excel_safely(file)
  ELSE IF suffix \in TextSuffixes THEN read_delimited_safely(file)
  ELSE Skipped(<<>>, Warning(file.name, "Unsupported file type", ""))

(* ------------------------------- state --------------------------------- *)
\* One run of the script over the working directory:
\*   fs        the working directory: file name -> content
\*   clock     the wall clock, in seconds after ClockBase
\*   run       the number of the run of the script
\*   pc        where main (or the __main__ block around it) stands
\*   files, out_fmt, idx, dfs, appended, do_dedupe, selected, result
\*             the locals of main (result: before/after/removed and the frame)
\*   log       the [WARN] lines printed so far in this run
\*   events    what the run has done so far, in order
\*   outputs   the names of the files written by the runs so far
\*   exitcode  the exit status of the process once the script has ended
\* A single call of one function (the specifications of the pure functions):
\*   call      the arguments;  ret  the value returned;  step  calls made
VARIABLES fs, clock, run, pc, files, out_fmt, idx, dfs, appended, do_dedupe,
          selected, result, log, events, outputs, exitcode, call, ret, step

runVars == <<fs, clock, run, pc, files, out_fmt, idx, dfs, appended, do_dedupe,
             selected, result, log, events, outputs, exitcode>>
vars == <<fs, clock, run, pc, files, out_fmt, idx, dfs, appended, do_dedupe,
          selected, result, log, events, outputs, exitcode, call, ret, step>>

NoResult == [deduped |-> NoFrame, before |-> 0, after |-> 0, removed |-> 0]

\* the locals of main before main has run
LocalsFresh ==
  /\ files = <<>> /\ out_fmt = "" /\ idx = 0 /\ dfs = <<>> /\ appended = NoFrame
  /\ do_dedupe = FALSE /\ selected = None /\ result = NoResult
  /\ log = <<>> /\ events = <<>>

\* no script runs (the specifications of the pure functions)
RunIdle ==
  /\ fs = <<>> /\ clock = 0 /\ run = 0 /\ pc = "idle" /\ outputs = {} /\ exitcode = -1
  /\ LocalsFresh

(* ------------------------ inputs of the functions ----------------------- *)
Seqs(S, n) == UNION {[1..k -> S] : k \in 0..n}
\* column labels as pandas hands them over: pairwise distinct (it renames
\* repeated labels itself), not yet trimmed
DistinctSeqs(S, n) == {s \in Seqs(S, n) : IsUnique(s)}

HeaderPool ==
  { <<"N">>, <<"N"," ">>, <<" ","N">>, <<"N",".","1">>, <<"n">>, <<" ">>, <<"9">>,
    SOURCE_FILE }
Headers == DistinctSeqs(HeaderPool, MaxCols)

A_CSV == <<"a",".","c","s","v">>

(* --------------- clean_column_names, then df.insert (86-87) ------------- *)
InitClean ==
  /\ call \in {[cols |-> h, name |-> A_CSV] : h \in Headers}
  /\ ret = <<>> /\ step = 0
  /\ RunIdle

ApplyClean ==
  /\ step = 0
  /\ LET cleaned == clean_column_names(call.cols) IN
     ret' = [cleaned |-> cleaned,
             raises |-> InsertRaises(cleaned),
             cols |-> IF InsertRaises(cleaned) THEN <<>>
                      ELSE InsertSource(cleaned, <<>>, call.name).cols]
  /\ step' = 1
  /\ UNCHANGED <<call, runVars>>

NextClean == ApplyClean
SpecClean == InitClean /\ [][NextClean]_vars

\* C3: the column names clean_column_names returns are pairwise distinct,
\* and so are the columns of the per-file table once Source_File is prepended.
C3_ColumnsUnique ==
  step = 1 => /\ IsUnique(ret.cleaned)
              /\ (~ret.raises => IsUnique(ret.cols))

(* ------------------------- select_dedupe_column ------------------------- *)
\* what the user may type at the column prompt (before .strip())
TypedPool ==
  { <<>>, <<" ">>, <<"0">>, <<"1">>, <<"3">>, <<"9">>, <<" ","1"," ">>,
    <<"n">>, <<"N">>, <<"n",".","1">>, <<"z","z">> }

\* list(appended.columns) of a frame read from one file
ColumnLists ==
  { <<SOURCE_FILE>> \o clean_column_names(h) :
      h \in {g \in Headers : ~InsertRaises(clean_column_names(g))} }

InitSelect ==
  /\ call \in {[columns |-> c, typed |-> t] : c \in ColumnLists, t \in TypedPool}
  /\ ret = <<>> /\ step = 0
  /\ RunIdle

ApplySelect ==
  /\ step = 0
  /\ ret' = select_dedupe_column(call.columns, call.typed)
  /\ step' = 1
  /\ UNCHANGED <<call, runVars>>

NextSelect == ApplySelect
SpecSelect == InitSelect /\ [][NextSelect]_vars

\* the line the user entered, trimmed
Entered == Strip(call.typed)
NameMatches == \E j \in DOMAIN call.columns : Lower(call.columns[j]) = Lower(Entered)
IndexInRange == IsDigit(Entered) /\ ToInt(Entered) < Len(call.columns)

C8_WitnessDigitName ==
  /\ step = 1 /\ Entered = <<"9">> /\ NameMatches /\ ret = None

(* --------------------------- sorting of names --------------------------- *)
\* the characters of the names, in code-point order
Ascii == <<" ", "$", ".">> \o DigitChars \o UpperChars \o <<"_">> \o LowerChars \o <<"~">>
CharCode(c) == CHOOSE i \in DOMAIN Ascii : Ascii[i] = c

\* a <= b for Python strings
RECURSIVE StrLeq(_, _)
StrLeq(a, b) ==
  IF a = <<>> THEN TRUE
  ELSE IF b = <<>> THEN FALSE
  ELSE IF Head(a) = Head(b) THEN StrLeq(Tail(a), Tail(b))
  ELSE CharCode(Head(a)) < CharCode(Head(b))

\* sorted(files, key=lambda p: p.name.lower()): every order of the names S that
\* is ascending in the lowered name (names with equal keys keep the order in
\* which the directory listed them, which is any order)
RECURSIVE SortedOrders(_)
SortedOrders(S) ==
  IF S = {} THEN {<<>>}
  ELSE UNION { {<<m>> \o t : t \in SortedOrders(S \ {m})} :
               m \in {x \in S : \A y \in S : StrLeq(Lower(x), Lower(y))} }

(* ------------------------------ input files ----------------------------- *)
k == <<"k">>
v == <<"v">>
w == <<"w">>
Cell(c) == <<c>>

TextOk(hdr, rows) == Content(AllEnc(TRUE), ",", TRUE, TRUE, hdr, rows)
SheetOk(hdr, rows) == Content(AllEnc(FALSE), "error", TRUE, TRUE, hdr, rows)

B_XLSX == <<"B",".","x","l","s","x">>
C_TSV == <<"c",".","t","s","v">>
D_TXT == <<"d",".","t","x","t">>
E_CSV == <<"e",".","c","s","v">>
F_ODS == <<"f",".","o","d","s">>
G_XLSM == <<"g",".","x","l","s","m">>

\* files that read as non-empty tables: shared and disjoint columns, columns in
\* another order, labels that differ in case only, missing keys, and labels
\* that collide once trimmed
GoodFiles ==
  { File(A_CSV, TextOk(<<k, v>>, << <<Cell("1"), Cell("a")>>, <<Cell("2"), Cell("b")>> >>)),
    File(B_XLSX, SheetOk(<<k, w>>, << <<Cell("1"), Cell("c")>> >>)),
    File(C_TSV, Content([AllEnc(TRUE) EXCEPT !["utf-8-sig"] = FALSE, !["utf-8"] = FALSE],
                        "error", TRUE, TRUE,
                        <<v, k>>, << <<Cell("b"), NaN>>, <<Cell("c"), Cell("1")>> >>)),
    File(D_TXT, Content(AllEnc(TRUE), ";", TRUE, TRUE,
                        << <<"N">>, <<"N"," ">>, <<"N",".","1">> >>,
                        << <<Cell("a"), Cell("x"), Cell("y")>>,
                           <<Cell("b"), Cell("x"), Cell("z")>> >>)),
    File(E_CSV, TextOk(<<k>>, << <<NaN>>, <<Cell("2")>>, <<NaN>> >>)),
    File(F_ODS, SheetOk(<< <<"K">> >>, << <<Cell("1")>>, <<Cell("1")>> >>)),
    File(G_XLSM, SheetOk(<<k, v>>, << <<Cell("1"), Cell("c")>> >>)) }

FileNamed(S, name) == CHOOSE f \in S : f.name = name

\* the frames main collects from the files S, in discovery order
FramesOf(S) ==
  { [i \in DOMAIN order |-> read_any_supported(FileNamed(S, order[i])).df] :
      order \in SortedOrders({f.name : f \in S}) }

FrameLists ==
  UNION { FramesOf(S) : S \in {T \in SUBSET GoodFiles : Cardinality(T) \in 1..MaxTables} }

(* ------------------------------ pd.concat ------------------------------- *)
InitMerge ==
  /\ call \in {[dfs |-> d] : d \in FrameLists}
  /\ ret = <<>> /\ step = 0
  /\ RunIdle

ApplyConcat ==
  /\ step = 0
  /\ ret' = IF ConcatRaises(call.dfs) THEN [raised |-> TRUE, df |-> NoFrame]
            ELSE [raised |-> FALSE, df |-> Concat(call.dfs)]
  /\ step' = 1
  /\ UNCHANGED <<call, runVars>>

NextMerge == ApplyConcat
SpecMerge == InitMerge /\ [][NextMerge]_vars

\* where a label is first seen among the input frames: <<frame, position>>
FirstSeen(d, c) ==
  LET i == CHOOSE a \in DOMAIN d : c \in Range(d[a].cols)
                                   /\ \A b \in DOMAIN d : c \in Range(d[b].cols) => a <= b
  IN  <<i, CHOOSE j \in DOMAIN d[i].cols :
               d[i].cols[j] = c /\ \A m \in DOMAIN d[i].cols : d[i].cols[m] = c => j <= m>>
Before(p, q) == p[1] < q[1] \/ (p[1] = q[1] /\ p[2] < q[2])

\* number of rows of the frames before frame i
RECURSIVE RowsBefore(_, _)
RowsBefore(d, i) == IF i = 1 THEN 0 ELSE RowsBefore(d, i - 1) + Len(d[i - 1].rows)

\* C4: the merged columns are the ordered union of the input column names
\* (each name once, first seen first), the rows are the input rows in input
\* order, each with its own values under its own columns and the missing
\* marker under every column its origin table lacks.
C4_OuterUnion ==
  step = 1 =>
    /\ ~ret.raised
    /\ LET d == call.dfs
           m == ret.df
       IN  /\ IsUnique(m.cols)
           /\ Range(m.cols) = UNION {Range(d[i].cols) : i \in DOMAIN d}
           /\ \A a, b \in DOMAIN m.cols :
                a < b => Before(FirstSeen(d, m.cols[a]), FirstSeen(d, m.cols[b]))
           /\ Len(m.rows) = RowsBefore(d, Len(d) + 1)
           /\ \A i \in DOMAIN d : \A r \in DOMAIN d[i].rows :
                LET row == m.rows[RowsBefore(d, i) + r] IN
                /\ \A j \in DOMAIN d[i].cols :
                     \E c \in DOMAIN m.cols :
                        m.cols[c] = d[i].cols[j] /\ row[c] = d[i].rows[r][j]
                /\ \A c \in DOMAIN m.cols :
                     m.cols[c] \notin Range(d[i].cols) => row[c] = NaN

\* the same statement over inputs whose column names are pairwise distinct
C4_OuterUnionOfUniqueInputs ==
  (\A i \in DOMAIN call.dfs : IsUnique(call.dfs[i].cols)) => C4_OuterUnion

(* --------------------------- drop_duplicates ---------------------------- *)
\* the appended frames main can hold, each with one of its columns (by
\* position) as the column the user picked
AppendedFrames == {Concat(d) : d \in {e \in FrameLists : ~ConcatRaises(e)}}

InitDedupe ==
  /\ call \in UNION { {[df |-> a, at |-> p, first |-> NoResult] : p \in DOMAIN a.cols} :
                       a \in AppendedFrames }
  /\ ret = <<>> /\ step = 0
  /\ RunIdle

\* lines 262-265 on the appended frame
ApplyDedupe ==
  /\ step = 0
  /\ ret' = Dedupe(call.df, call.df.cols[call.at])
  /\ step' = 1
  /\ UNCHANGED <<call, runVars>>

\* the same lines again, on the frame they produced
ApplyDedupeAgain ==
  /\ step = 1
  /\ call' = [call EXCEPT !.df = ret.deduped, !.first = ret]
  /\ ret' = Dedupe(ret.deduped, call.df.cols[call.at])
  /\ step' = 2
  /\ UNCHANGED runVars

NextDedupe == ApplyDedupe \/ ApplyDedupeAgain
SpecDedupe == InitDedupe /\ [][NextDedupe]_vars

\* the positions of the rows of df that no earlier row equals in column `at`
FirstOfKey(df, at) ==
  {i \in DOMAIN df.rows : \A j \in 1..(i - 1) : df.rows[j][at] # df.rows[i][at]}
\* the rows of df at the positions P, in order
RowsAt(df, P) ==
  LET pos == SelectSeq([i \in DOMAIN df.rows |-> i], LAMBDA i : i \in P)
  IN  [n \in DOMAIN pos |-> df.rows[pos[n]]]

\* C5: a row is retained iff no earlier row has the same value in the key
\* column (missing values equal one another); survivors keep their order and
\* all columns; before, after and removed count the rows.
C5_FirstWins ==
  step = 1 =>
    /\ ret.deduped.cols = call.df.cols
    /\ ret.deduped.rows = RowsAt(call.df, FirstOfKey(call.df, call.at))
    /\ ret.before = Len(call.df.rows)
    /\ ret.after = Len(ret.deduped.rows)
    /\ ret.removed = ret.before - ret.after

\* the same statement over frames whose column names are pairwise distinct
C5_FirstWinsOnUniqueColumns == IsUnique(call.df.cols) => C5_FirstWins

\* C9: de-duplicating the result of a de-duplication on the same key returns
\* the identical table and removes nothing.
C9_Idempotent ==
  step = 2 =>
    /\ ret.deduped = call.first.deduped
    /\ ret.removed = 0
    /\ ret.before = ret.after

\* the second pass ran on a frame from which the first pass had removed rows
C9_Witness ==
  /\ step = 2 /\ call.first.removed >= 2 /\ Len(ret.deduped.rows) >= 2

(* ------------------------ read_delimited_safely ------------------------- *)
N_TXT == <<"n",".","t","x","t">>
\* delimited files of the three suffixes: any outcome of the parse under each
\* encoding, any outcome of the sniffer, headers with and without a column
\* already called Source_File
DelimitedFiles ==
  { File(name, Content(ok, sn, TRUE, TRUE, hdr, << <<Cell("1"), Cell("a")>> >>)) :
      name \in {A_CSV, C_TSV, N_TXT},
      ok \in [Range(encodings_to_try) -> BOOLEAN],
      sn \in Delimiters \cup {"error", "empty"},
      hdr \in { <<k, v>>, <<SOURCE_FILE, k>> } }

InitRead ==
  /\ call \in {[file |-> f] : f \in DelimitedFiles}
  /\ ret = <<>> /\ step = 0
  /\ RunIdle

ApplyReadDelimited ==
  /\ step = 0
  /\ ret' = read_delimited_safely(call.file)
  /\ step' = 1
  /\ UNCHANGED <<call, runVars>>

NextRead == ApplyReadDelimited
SpecRead == InitRead /\ [][NextRead]_vars

\* the attempt under encoding e goes through: the parse succeeds and the file
\* has no column that collides with the provenance column
Succeeds(f, e) ==
  f.content.encOk[e] /\ SOURCE_FILE \notin Range(clean_column_names(f.content.hdr))

\* C10: the attempts are made in the order utf-8-sig, utf-8, cp1252, latin1, at
\* most one per encoding; the table of the first encoding that succeeds is
\* returned and no later encoding is tried; None is returned, with a warning
\* carrying the last error, iff all four fail; a .tsv file is always read with
\* a tab and the sniffer is never called for it.
C10_EncodingOrder ==
  step = 1 =>
    LET f == call.file
        t == ret.tries
        n == Len(t)
    IN  /\ n \in 1..Len(encodings_to_try)
        /\ \A i \in 1..n : t[i].with = encodings_to_try[i]
        /\ \A i \in 1..n : t[i].ok = Succeeds(f, encodings_to_try[i])
        /\ \A i \in 1..(n - 1) : ~t[i].ok
        /\ ~ret.isNone <=> t[n].ok
        /\ ~ret.isNone =>
             /\ ret.df.cols = <<SOURCE_FILE>> \o f.content.hdr
             /\ \A r \in DOMAIN ret.df.rows : ret.df.rows[r] = <<f.name>> \o f.content.rows[r]
             /\ Len(ret.df.rows) = Len(f.content.rows)
             /\ ret.warn = <<>>
        /\ ret.isNone <=> \A e \in Range(encodings_to_try) : ~Succeeds(f, e)
        /\ ret.isNone =>
             /\ n = Len(encodings_to_try)
             /\ Len(ret.warn) = 1
             /\ ret.warn[1].file = f.name
             /\ ret.warn[1].detail = AttemptError(f, encodings_to_try[n])
        /\ Suffix(f.name) = TSV => \A i \in 1..n : t[i].sep = "\t" /\ ~t[i].sniffed
        /\ Suffix(f.name) # TSV =>
             \A i \in 1..n : /\ t[i].sniffed
                             /\ t[i].sep = IF f.content.sniff \in Delimiters
                                           THEN f.content.sniff ELSE ","

\* the first two encodings failed and the table came from the third
C10_Witness ==
  /\ step = 1 /\ ~ret.isNone /\ Len(ret.tries) = 3
  /\ call.file.content.encOk["latin1"]

\* all four encodings failed on a .tsv file
C10_WitnessAbsent ==
  /\ step = 1 /\ ret.isNone /\ Suffix(call.file.name) = TSV

(* --------------------------- discover_data_files ------------------------ *)
\* SUPPORTED_PATTERNS, each "*" followed by the text kept here
SUPPORTED_PATTERNS ==
  << <<".","x","l","s","x">>, <<".","x","l","s","m">>, <<".","x","l","s">>,
     <<".","x","l","s","b">>, <<".","o","d","s">>,
     <<".","c","s","v">>, <<".","t","s","v">>, <<".","t","x","t">> >>
LOCK_PREFIX == <<"~","$">>
APPENDED_DATA == <<"A","p","p","e","n","d","e","d","_","d","a","t","a">>
OUTPUT_MARKER == <<"_">> \o APPENDED_DATA

\* cwd.glob(pat) for the names of the directory
Glob(names, pat) == {n \in names : EndsWith(n, pat)}

\* the names discover_data_files keeps, before sorting
Discovered(dir) ==
  LET names == {f.name : f \in dir}
      globbed == UNION { {n \in Glob(names, SUPPORTED_PATTERNS[i]) : ~StartsWith(n, LOCK_PREFIX)} :
                         i \in DOMAIN SUPPORTED_PATTERNS }
  IN  {n \in globbed : ~Contains(Stem(n), OUTPUT_MARKER)}

\* the lists discover_data_files may return
discover_data_files(dir) == SortedOrders(Discovered(dir))

(* ----------------------- timestamp, safe_output_name -------------------- *)
\* datetime.now().strftime("%Y%m%d_%H%M%S") at `t` seconds past 2025-01-01 12:00:00
ClockBase == <<"2","0","2","5","0","1","0","1","_","1","2","0","0">>
timestamp(t) == ClockBase \o (IF t < 10 THEN <<"0">> \o IntToStr(t) ELSE IntToStr(t))

\* the name of the file safe_output_name places in the working directory
safe_output_name(base_name, ext, t) == base_name \o <<"_">> \o timestamp(t) \o <<".">> \o ext

\* Path.cwd().name
FolderName == <<"d","a","t","a">>
ExtText(fmt) == IF fmt = "csv" THEN <<"c","s","v">> ELSE <<"x","l","s","x">>

\* what to_excel / to_csv(encoding="utf-8-sig") leave on disk: the frame, its
\* columns as the header row
Written(fmt, df) ==
  IF fmt = "csv" THEN Content(AllEnc(TRUE), ",", TRUE, TRUE, df.cols, df.rows)
  ELSE Content(AllEnc(FALSE), "error", TRUE, TRUE, df.cols, df.rows)

\* the directory after the file `name` is created (or replaced)
WriteFile(dir, name, content) == {f \in dir : f.name # name} \cup {File(name, content)}

(* --------------------------- the working directory ---------------------- *)
H_CSV == <<"h",".","c","s","v">>
M_ODS == <<"m",".","o","d","s">>
X_TXT == <<"x",".","t","x","t">>
R_MD == <<"r",".","m","d">>
LOCK_XLSX == LOCK_PREFIX \o B_XLSX
P_CSV == <<"p">> \o OUTPUT_MARKER \o <<".","c","s","v">>

\* files a directory may hold before the first run: three that read as
\* non-empty tables, a header-only file, a file no encoding can parse, a
\* spreadsheet whose engine is not installed, a lock file, a file named like an
\* earlier output, and a file of an unsupported type
Catalogue ==
  { FileNamed(GoodFiles, A_CSV), FileNamed(GoodFiles, B_XLSX), FileNamed(GoodFiles, D_TXT),
    File(H_CSV, TextOk(<<k, v>>, <<>>)),
    File(X_TXT, Content(AllEnc(FALSE), "error", TRUE, TRUE, <<>>, <<>>)),
    File(M_ODS, Content(AllEnc(FALSE), "error", FALSE, TRUE, <<k>>, << <<Cell("1")>> >>)),
    File(LOCK_XLSX, SheetOk(<<k>>, << <<Cell("1")>> >>)),
    File(P_CSV, TextOk(<<k>>, << <<Cell("1")>> >>)),
    File(R_MD, TextOk(<<k>>, << <<Cell("1")>> >>)) }

\* what the user may type at the column prompt during a run
RunTyped == { <<>>, <<"1">>, <<"K">>, <<"z","z">> }

(* -------------------------------- main ---------------------------------- *)
Init ==
  /\ fs \in {S \in SUBSET Catalogue : Cardinality(S) <= MaxFiles}
  /\ clock = 0 /\ run = 1 /\ pc = "start" /\ outputs = {} /\ exitcode = -1
  /\ LocalsFresh
  /\ call = <<>> /\ ret = <<>> /\ step = 0

pureVars == <<call, ret, step>>

\* lines 214-222: discovery; sys.exit(1) when nothing is found
Discover ==
  /\ pc = "start"
  /\ \E found \in discover_data_files(fs) :
       /\ files' = found
       /\ IF found = <<>>
          THEN /\ pc' = "SystemExit"
               /\ events' = events \o <<"discover", "sys.exit(1)">>
          ELSE /\ pc' = "choose_save_format"
               /\ events' = Append(events, "discover")
  /\ UNCHANGED <<fs, clock, run, out_fmt, idx, dfs, appended, do_dedupe, selected,
                 result, log, outputs, exitcode, pureVars>>

\* line 225 and choose_save_format
ChooseFormat ==
  /\ pc = "choose_save_format"
  /\ \E choice \in {"", "1", "2"} :
       out_fmt' = IF choice = "2" THEN "csv" ELSE "xlsx"
  /\ idx' = 1
  /\ pc' = "read"
  /\ UNCHANGED <<fs, clock, run, files, dfs, appended, do_dedupe, selected, result,
                 log, events, outputs, exitcode, pureVars>>

\* a variant of the loop body that appends every frame that is not None
ReadNextKeepingEmpty ==
  /\ pc = "read" /\ idx <= Len(files)
  /\ LET r == read_any_supported(FileNamed(fs, files[idx])) IN
     /\ dfs' = IF ~r.isNone THEN Append(dfs, r.df) ELSE dfs
     /\ log' = log \o r.warn
  /\ idx' = idx + 1
  /\ events' = Append(events, "read")
  /\ UNCHANGED <<fs, clock, run, pc, files, out_fmt, appended, do_dedupe, selected,
                 result, outputs, exitcode, pureVars>>

\* lines 229-232: one iteration of the reading loop
ReadNext ==
  /\ pc = "read" /\ idx <= Len(files)
  /\ LET r == read_any_supported(FileNamed(fs, files[idx])) IN
     /\ dfs' = IF ~r.isNone /\ ~IsEmpty(r.df) THEN Append(dfs, r.df) ELSE dfs
     /\ log' = log \o r.warn
  /\ idx' = idx + 1
  /\ events' = Append(events, "read")
  /\ UNCHANGED <<fs, clock, run, pc, files, out_fmt, appended, do_dedupe, selected,
                 result, outputs, exitcode, pureVars>>

\* lines 234-240: after the loop; sys.exit(1) when nothing was read, otherwise
\* the concat, whose exception (if any) leaves main
Append_ ==
  /\ pc = "read" /\ idx > Len(files)
  /\ IF dfs = <<>>
     THEN /\ pc' = "SystemExit"
          /\ events' = Append(events, "sys.exit(1)")
          /\ UNCHANGED appended
     ELSE IF ConcatRaises(dfs)
     THEN /\ pc' = "Exception"
          /\ events' = Append(events, "raise")
          /\ UNCHANGED appended
     ELSE /\ pc' = "ask_remove_duplicates"
          /\ events' = Append(events, "concat")
          /\ appended' = Concat(dfs)
  /\ UNCHANGED <<fs, clock, run, files, out_fmt, idx, dfs, do_dedupe, selected, result,
                 log, outputs, exitcode, pureVars>>

\* lines 243-253 and ask_remove_duplicates: on anything but "y", save the
\* appended frame and return
AskDedupe ==
  /\ pc = "ask_remove_duplicates"
  /\ \E choice \in {<<"Y">>, <<"n">>, <<>>} :
       /\ do_dedupe' = (Lower(Strip(choice)) = <<"y">>)
       /\ IF ~do_dedupe'
          THEN LET out_path == safe_output_name(FolderName \o OUTPUT_MARKER,
                                                ExtText(out_fmt), clock)
               IN  /\ fs' = WriteFile(fs, out_path, Written(out_fmt, appended))
                   /\ outputs' = outputs \cup {out_path}
                   /\ events' = events \o <<"write", "return">>
                   /\ pc' = "returned"
          ELSE /\ pc' = "select_dedupe_column"
               /\ UNCHANGED <<fs, outputs, events>>
  /\ UNCHANGED <<clock, run, files, out_fmt, idx, dfs, appended, selected, result, log,
                 exitcode, pureVars>>

\* a variant that saves the appended frame when no column was selected
SelectAndSaveAnyway ==
  /\ pc = "select_dedupe_column"
  /\ \E typed \in RunTyped :
       LET sel == select_dedupe_column(appended.cols, typed)
           res == IF sel \in {None, <<>>} THEN [NoResult EXCEPT !.deduped = appended]
                  ELSE Dedupe(appended, sel)
           out_path == safe_output_name(APPENDED_DATA, ExtText(out_fmt), clock)
       IN  /\ selected' = sel
           /\ result' = res
           /\ fs' = WriteFile(fs, out_path, Written(out_fmt, res.deduped))
           /\ outputs' = outputs \cup {out_path}
           /\ events' = events \o <<"drop_duplicates", "write", "return">>
           /\ pc' = "returned"
  /\ UNCHANGED <<clock, run, files, out_fmt, idx, dfs, appended, do_dedupe, log,
                 exitcode, pureVars>>

\* lines 256-277 and select_dedupe_column: sys.exit(1) when nothing (or a
\* column with an empty name) was selected, otherwise de-duplicate and save
Select ==
  /\ pc = "select_dedupe_column"
  /\ \E typed \in RunTyped :
       LET sel == select_dedupe_column(appended.cols, typed) IN
       /\ selected' = sel
       /\ IF sel \in {None, <<>>}
          THEN /\ pc' = "SystemExit"
               /\ events' = Append(events, "sys.exit(1)")
               /\ UNCHANGED <<fs, outputs, result>>
          ELSE LET res == Dedupe(appended, sel)
                   out_path == safe_output_name(APPENDED_DATA, ExtText(out_fmt), clock)
               IN  /\ result' = res
                   /\ fs' = WriteFile(fs, out_path, Written(out_fmt, res.deduped))
                   /\ outputs' = outputs \cup {out_path}
                   /\ events' = events \o <<"drop_duplicates", "write", "return">>
                   /\ pc' = "returned"
  /\ UNCHANGED <<clock, run, files, out_fmt, idx, dfs, appended, do_dedupe, log,
                 exitcode, pureVars>>

\* lines 279-291: the exit status of the process for the way main ended. The
\* block handles SystemExit (pass) and Exception (report); nothing is re-raised
\* and keep_window_open returns, so the interpreter ends normally.
ExitStatus(ending) ==
  IF ending \in {"returned", "SystemExit", "Exception"} THEN 0 ELSE 1

EndScript ==
  /\ pc \in {"returned", "SystemExit", "Exception"}
  /\ exitcode' = ExitStatus(pc)
  /\ pc' = "done"
  /\ UNCHANGED <<fs, clock, run, files, out_fmt, idx, dfs, appended, do_dedupe, selected,
                 result, log, events, outputs, pureVars>>

\* the script is started again in the same directory, in the same second or a
\* later one
RunAgain ==
  /\ pc = "done" /\ run < MaxRuns
  /\ run' = run + 1
  /\ clock' \in {clock, clock + 1}
  /\ pc' = "start"
  /\ exitcode' = -1
  /\ files' = <<>> /\ out_fmt' = "" /\ idx' = 0 /\ dfs' = <<>> /\ appended' = NoFrame
  /\ do_dedupe' = FALSE /\ selected' = None /\ result' = NoResult
  /\ log' = <<>> /\ events' = <<>>
  /\ UNCHANGED <<fs, outputs, pureVars>>

Next ==
  \/ Discover \/ ChooseFormat \/ ReadNext \/ Append_ \/ AskDedupe \/ Select
  \/ EndScript \/ RunAgain

Spec == Init /\ [][Next]_vars

(* ------------------------------ the claims ------------------------------ *)
Falsy(sel) == sel \in {None, <<>>}
Count(seq, e) == Cardinality({i \in DOMAIN seq : seq[i] = e})
Ended == pc = "done"
LastEvent == IF events = <<>> THEN "" ELSE events[Len(events)]

\* the conditions under which the run is to end with a nonzero exit code
NothingDiscovered == files = <<>>
NothingRead == files # <<>> /\ idx > Len(files) /\ dfs = <<>>
NothingSelected == do_dedupe /\ Falsy(selected)

\* C1: the exit code is nonzero when discovery returns no files, when no file
\* is read as a non-empty table, and when de-duplication was requested and no
\* column was selected; it is zero on every other path.
C1_ExitCode ==
  Ended => (exitcode # 0 <=> (NothingDiscovered \/ NothingRead \/ NothingSelected))

\* C2: discovery never returns a file an earlier run wrote, nor a lock file.
C2_OutputsNotRediscovered ==
  \A i \in DOMAIN files :
    /\ files[i] \notin outputs
    /\ ~StartsWith(files[i], LOCK_PREFIX)

\* the read of file f succeeds (stated from the content, not from the readers)
Readable(f) ==
  LET suffix == Lower(Suffix(f.name))
      clash == SOURCE_FILE \in Range(clean_column_names(f.content.hdr))
  IN  \/ suffix \in TextSuffixes /\ \E e \in Range(encodings_to_try) : f.content.encOk[e] /\ ~clash
      \/ suffix \in ExcelSuffixes /\ f.content.engine /\ f.content.xlOk /\ ~clash

\* the reading loop has been entered
Reading == pc \notin {"start", "choose_save_format", "idle"} /\ files # <<>>

\* C6: no exception leaves the readers; every file whose read fails is skipped
\* with a warning and the reading goes on; the frames collected for the concat
\* are exactly those of the files read successfully as non-empty tables, in
\* discovery order.
C6_FailureIsolation ==
  Reading =>
    LET done == SubSeq(files, 1, idx - 1)
        good == SelectSeq(done, LAMBDA n : /\ Readable(FileNamed(fs, n))
                                           /\ FileNamed(fs, n).content.rows # <<>>)
        bad == SelectSeq(done, LAMBDA n : ~Readable(FileNamed(fs, n)))
    IN  /\ Len(dfs) = Len(good)
        /\ \A j \in DOMAIN dfs :
             LET f == FileNamed(fs, good[j]) IN
             /\ Len(dfs[j].rows) = Len(f.content.rows)
             /\ \A r \in DOMAIN dfs[j].rows :
                  /\ dfs[j].rows[r][1] = f.name
                  /\ Tail(dfs[j].rows[r]) = f.content.rows[r]
             /\ Head(dfs[j].cols) = SOURCE_FILE
             /\ Len(dfs[j].cols) = Len(f.content.hdr) + 1
        /\ [j \in DOMAIN log |-> log[j].file] = bad
        /\ Count(events, "read") = Len(done)
        /\ pc # "read" => idx = Len(files) + 1
        /\ pc = "Exception" => LastEvent = "raise" /\ idx = Len(files) + 1

\* three files were discovered: one read as a table and was kept, one read as
\* an empty table and one failed to read, with the failure coming before the
\* file that was kept
C6_Witness ==
  /\ pc = "ask_remove_duplicates" /\ Len(files) = 3
  /\ Len(log) = 1 /\ Len(dfs) = 1
  /\ \E i, j \in DOMAIN files : i < j /\ log[1].file = files[i] /\ dfs[1].rows[1][1] = files[j]

\* C7: a run that ends without a fatal condition has written exactly one file;
\* a run in which nothing is discovered, nothing is read or no column is
\* selected writes none; the write comes after every read, the concat and (if
\* requested) the de-duplication, and nothing but the return follows it.
C7_OneWrite ==
  /\ Count(events, "write") <= 1
  /\ pc = "returned" => Count(events, "write") = 1
  /\ (Ended /\ LastEvent = "return") =>
       /\ Count(events, "write") = 1
       /\ \E f \in fs : f.name \in outputs /\ f.content.hdr = IF do_dedupe
                                                              THEN result.deduped.cols
                                                              ELSE appended.cols
  /\ (Ended /\ LastEvent # "return") => Count(events, "write") = 0
  /\ (pc # "start" /\ NothingDiscovered) => Count(events, "write") = 0
  /\ NothingRead => Count(events, "write") = 0
  /\ NothingSelected => Count(events, "write") = 0
  /\ \A i \in DOMAIN events :
       events[i] = "write" =>
         /\ Count(SubSeq(events, 1, i), "read") = Len(files)
         /\ Count(SubSeq(events, 1, i), "concat") = 1
         /\ do_dedupe => Count(SubSeq(events, 1, i), "drop_duplicates") = 1
         /\ \A j \in (i + 1)..Len(events) : events[j] = "return"
  /\ Cardinality(outputs) <= run
  /\ {f.name : f \in fs} \subseteq {f.name : f \in Catalogue} \cup outputs

\* a run that de-duplicated, removed a row and saved
C7_Witness ==
  /\ Ended /\ LastEvent = "return" /\ do_dedupe /\ result.removed >= 1
  /\ Len(files) = 2

\* a run that ended because no column was selected
C7_WitnessNoColumn ==
  /\ Ended /\ NothingSelected /\ Count(events, "write") = 0

====
